---- MODULE Spec2Model ----
(***************************************************************************)
(* TubeProphet: linear projection of view counts and detection of rank     *)
(* changes (src/TubeProphet.py).                                           *)
(*                                                                         *)
(* Numbers.  Video.views starts as a Python int and becomes a float at the *)
(* first fast_forward; Video.avg_views is a float from the start.  A       *)
(* number is modelled as an integer count of units of 2^-FracBits, and     *)
(* every float operation rounds its exact result to MantBits significant   *)
(* bits, ties to even (IEEE-754 binary64 with the significand narrowed     *)
(* from 53 to MantBits bits so that the values fit TLC's integers).        *)
(***************************************************************************)
EXTENDS Integers, Sequences, FiniteSets, TLC

(* ---------------------------- bounds ----------------------------------- *)
MantBits == 12      \* significand width of the modelled float
MinExp == 4         \* values down to 2^-MinExp keep the full significand
MaxN == 5           \* largest number of days advanced under SpecItem
MaxVideos == 2      \* longest list handed to track_changes directly
MaxDays == 6        \* largest days_threshold handed to track_changes directly
MaxIds == 2         \* longest data['videos'] list read by main
MaxArgDays == 2     \* largest value of the -d flag

(* ------------------------- float arithmetic ---------------------------- *)
RECURSIVE Pow2(_)
Pow2(k) == IF k <= 0 THEN 1 ELSE 2 * Pow2(k - 1)

RECURSIVE BitLen(_)
BitLen(m) == IF m <= 0 THEN 0 ELSE 1 + BitLen(m \div 2)

FracBits == MantBits + MinExp
Unit == Pow2(FracBits)

Abs(n) == IF n < 0 THEN -n ELSE n
Sign(n) == IF n < 0 THEN -1 ELSE 1
MaxOf(a, b) == IF a >= b THEN a ELSE b

\* m >= 0 rounded to a multiple of q, ties to the even multiple
RoundTo(m, q) ==
    LET r == m % q
        base == m - r
    IN  IF 2 * r < q THEN base
        ELSE IF 2 * r > q THEN base + q
        ELSE IF (base \div q) % 2 = 0 THEN base ELSE base + q

\* m >= 0 rounded to MantBits significant bits, on a grid no finer than minq
RoundMag(m, minq) == RoundTo(m, MaxOf(minq, Pow2(BitLen(m) - MantBits)))

\* the float nearest to the exact value n (in units)
Round(n) == Sign(n) * RoundMag(Abs(n), 1)

\* Python's a / b on ints: the correctly rounded quotient (b # 0); two guard
\* bits and a sticky bit keep the single rounding exact
TrueDiv(a, b) ==
    LET m == Abs(a) * Unit * 4
        q == m \div Abs(b)
        t == IF m % Abs(b) # 0 /\ q % 2 = 0 THEN q + 1 ELSE q
    IN  (Sign(a) * Sign(b)) * (RoundMag(t, 4) \div 4)

\* float x times int k
FMul(x, k) == Round(x * k)

\* x + y for a float y: x, when still an int, is converted to float first
\* (Round leaves a float as it is)
FAdd(x, y) == Round(Round(x) + y)

\* int(x): truncation toward zero
ToInt(x) == Sign(x) * (Abs(x) \div Unit)

(* ------------------------------ Video ---------------------------------- *)
Titles == {"A", "B"}

\* Video.__init__(title, views, upload_date) with days_up = (TODAY - upload_date).days;
\* defined for days_up # 0 (days_up = 0 raises ZeroDivisionError, see Raises).
\* upload_date, years_up and pretty_date only feed full_info and are left out.
Video(title, views, days_up) ==
    [title |-> title,
     views |-> views * Unit,
     days_up |-> days_up,
     avg_views |-> TrueDiv(views, days_up)]

\* Video.__init__ raises ZeroDivisionError at self.views / self.days_up
Raises(days_up) == days_up = 0

\* faulty variant: the average recomputed from the grown view count (compounding)
fast_forward_compounding(v, days) ==
    LET grown == FAdd(v.views, FMul(v.avg_views, days))
    IN  [v EXCEPT !.views = grown,
                  !.avg_views = Sign(v.days_up) * Round(grown \div Abs(v.days_up))]

\* Video.fast_forward(days)
fast_forward(v, days) ==
    [v EXCEPT !.views = FAdd(v.views, FMul(v.avg_views, days))]

(* ------------------------------ state ---------------------------------- *)
VARIABLES
    pc,             \* position: "main", "fetch", "track", "item", "done"
    data,           \* the JSON file: which of the keys videos, key, d it holds
    args,           \* argparse result: -k given or not, -d value (0 = None)
    api,            \* per video: the title, viewCount and age the constructor gets
    obj,            \* the Video objects, by identity (index of construction)
    videos,         \* the list `videos`: a sequence of object identities
    prev_order,     \* dict index -> Video, as the sequence of identities (<<>> = None/empty)
    day,            \* the loop variable of track_changes (days completed)
    days_threshold, \* parameter of track_changes
    out,            \* the snapshots printed so far
    ret,            \* what main returned or raised
    exitCode,       \* the interpreter's exit status (-1 while running)
    steps,          \* SpecItem: fast_forward(1) calls made on obj[1]
    jumped          \* SpecItem: the N of the one fast_forward(N) call on obj[2] (0 = none)

vars == <<pc, data, args, api, obj, videos, prev_order, day, days_threshold,
          out, ret, exitCode, steps, jumped>>

DefaultDays == 100      \* days_threshold=100

(* --------------------------- track_changes ----------------------------- *)
RECURSIVE InsertDesc(_, _, _)
\* id placed behind every element whose key is >= its own
InsertDesc(o, s, id) ==
    IF s = <<>> THEN <<id>>
    ELSE IF o[Head(s)].views >= o[id].views
         THEN <<Head(s)>> \o InsertDesc(o, Tail(s), id)
         ELSE <<id>> \o s

RECURSIVE InsertAsc(_, _, _)
InsertAsc(o, s, id) ==
    IF s = <<>> THEN <<id>>
    ELSE IF o[Head(s)].views <= o[id].views
         THEN <<Head(s)>> \o InsertAsc(o, Tail(s), id)
         ELSE <<id>> \o s

RECURSIVE StableSort(_, _)
\* list.sort(reverse=True, key=views): stable, descending
StableSort(o, vs) ==
    IF vs = <<>> THEN <<>>
    ELSE InsertDesc(o, StableSort(o, SubSeq(vs, 1, Len(vs) - 1)), vs[Len(vs)])

RECURSIVE StableSortAsc(_, _)
StableSortAsc(o, vs) ==
    IF vs = <<>> THEN <<>>
    ELSE InsertAsc(o, StableSortAsc(o, SubSeq(vs, 1, Len(vs) - 1)), vs[Len(vs)])

Reverse(s) == [i \in 1..Len(s) |-> s[Len(s) + 1 - i]]

\* faulty variant: the reverse=True forgotten
videos_sort_ascending(o, vs) == StableSortAsc(o, vs)

\* faulty variant: sorted ascending and then reversed, which reverses ties too
videos_sort_then_reverse(o, vs) == Reverse(StableSortAsc(o, vs))

\* videos.sort(reverse=True, key=lambda v: v.views)
videos_sort(o, vs) == StableSort(o, vs)

\* print_videos_summary(videos): one row per video, '%d. %s' % (i + 1, vid),
\* where str(vid) shows the title and int(views)
print_videos_summary(o, vs) ==
    [i \in 1..Len(vs) |-> [title |-> o[vs[i]].title, views |-> ToInt(o[vs[i]].views)]]

\* what one report prints: its heading and the numbered list
Snapshot(start, n, o, vs) ==
    [start |-> start, day |-> n, rows |-> print_videos_summary(o, vs)]

\* faulty variant: the objects compared instead of their titles
differs_identity(o, vid, cur) == vid # cur

\* faulty variant: the condition inverted
differs_inverted(o, vid, cur) == o[vid].title = o[cur].title

\* vid.title != videos[i].title
differs(o, vid, cur) == o[vid].title # o[cur].title

\* faulty variant: the loop index printed as the day number
day_label_index(d) == d

\* 'Day %d:' % (day + 1)
day_label(d) == d + 1

RECURSIVE Scan(_, _, _, _, _)
\* for i, vid in prev_order.items(): if differs: print ...; break
Scan(o, prev, vs, i, d) ==
    IF i > Len(prev) THEN <<>>
    ELSE IF differs(o, prev[i], vs[i])
         THEN <<Snapshot(FALSE, day_label(d), o, vs)>>
         ELSE Scan(o, prev, vs, i + 1, d)

RECURSIVE ScanNoBreak(_, _, _, _, _)
ScanNoBreak(o, prev, vs, i, d) ==
    IF i > Len(prev) THEN <<>>
    ELSE (IF differs(o, prev[i], vs[i]) THEN <<Snapshot(FALSE, day_label(d), o, vs)>> ELSE <<>>)
         \o ScanNoBreak(o, prev, vs, i + 1, d)

\* faulty variant: the break forgotten
report_changes_no_break(o, prev, vs, d) == ScanNoBreak(o, prev, vs, 1, d)

\* the else branch of the loop body: the snapshots printed on day index d > 0
report_changes(o, prev, vs, d) == Scan(o, prev, vs, 1, d)

\* one iteration of `for day in range(days_threshold)`.  (The full_info
\* listing printed before the loop reads the videos and changes nothing; out
\* holds the snapshots only.)
Day ==
    /\ pc = "track"
    /\ day < days_threshold
    /\ LET vs == videos_sort(obj, videos)
       IN  /\ out' = IF day = 0
                     THEN Append(out, Snapshot(TRUE, 1, obj, vs))
                     ELSE out \o report_changes(obj, prev_order, vs, day)
           /\ prev_order' = vs
           /\ videos' = vs
           /\ obj' = [id \in DOMAIN obj |->
                        IF \E i \in 1..Len(vs) : vs[i] = id
                        THEN fast_forward(obj[id], 1) ELSE obj[id]]
    /\ day' = day + 1
    /\ UNCHANGED <<pc, data, args, api, days_threshold, ret, exitCode, steps, jumped>>

\* range exhausted: track_changes returns, main falls off its end (returns
\* None) and the interpreter exits with status 0
Return ==
    /\ pc = "track"
    /\ day >= days_threshold
    /\ pc' = "done"
    /\ ret' = "None"
    /\ exitCode' = 0
    /\ UNCHANGED <<data, args, api, obj, videos, prev_order, day, days_threshold,
                   out, steps, jumped>>

(* ------------------------------- main ---------------------------------- *)
\* main up to the end of the `with` block: the two early returns.  The value
\* main returns is dropped by `main()` at module level, so the exit status is 0.
main ==
    /\ pc = "main"
    /\ IF ~data.videos
       THEN /\ ret' = "1"
            /\ exitCode' = 0
            /\ pc' = "done"
       ELSE IF ~data.key /\ ~args.key
       THEN /\ ret' = "2"
            /\ exitCode' = 0
            /\ pc' = "done"
       ELSE /\ pc' = "fetch"
            /\ UNCHANGED <<ret, exitCode>>
    /\ UNCHANGED <<data, args, api, obj, videos, prev_order, day, days_threshold,
                   out, steps, jumped>>

\* one element of [get_video_details(vid, key) for vid in video_ids]; an
\* uncaught ZeroDivisionError from Video.__init__ ends the process with status 1
get_video_details ==
    /\ pc = "fetch"
    /\ Len(obj) < Len(api)
    /\ LET a == api[Len(obj) + 1]
       IN  IF Raises(a.days_up)
           THEN /\ ret' = "ZeroDivisionError"
                /\ exitCode' = 1
                /\ pc' = "done"
                /\ obj' = obj
           ELSE /\ obj' = Append(obj, Video(a.title, a.views, a.days_up))
                /\ UNCHANGED <<ret, exitCode, pc>>
    /\ UNCHANGED <<data, args, api, videos, prev_order, day, days_threshold,
                   out, steps, jumped>>

\* track_changes(videos): days_threshold takes its default, whatever -d was
call_track_changes ==
    /\ pc = "fetch"
    /\ Len(obj) = Len(api)
    /\ videos' = [i \in 1..Len(obj) |-> i]
    /\ days_threshold' = DefaultDays
    /\ prev_order' = <<>>
    /\ day' = 0
    /\ pc' = "track"
    /\ UNCHANGED <<data, args, api, obj, out, ret, exitCode, steps, jumped>>

(* ----------------------- Item: repeated advance ------------------------ *)
\* obj[1].fast_forward() (days=1), over and over
AdvanceByOne ==
    /\ pc = "item"
    /\ steps < MaxN
    /\ obj' = [obj EXCEPT ![1] = fast_forward(obj[1], 1)]
    /\ steps' = steps + 1
    /\ UNCHANGED <<pc, data, args, api, videos, prev_order, day, days_threshold,
                   out, ret, exitCode, jumped>>

\* obj[2].fast_forward(n), once
AdvanceByN ==
    /\ pc = "item"
    /\ jumped = 0
    /\ \E n \in 1..MaxN :
          /\ obj' = [obj EXCEPT ![2] = fast_forward(obj[2], n)]
          /\ jumped' = n
    /\ UNCHANGED <<pc, data, args, api, videos, prev_order, day, days_threshold,
                   out, ret, exitCode, steps>>

(* ------------------------------ inputs --------------------------------- *)
SeqsUpTo(S, n) == UNION {[1..k -> S] : k \in 0..n}

\* what the metadata provider may answer for a video id: view counts and
\* ages in days, an upload dated today (0) or tomorrow (-1) included
ApiAnswers == [title : Titles, views : {0, 3}, days_up : {-1, 0, 2}]

\* constructor arguments of the videos handed to track_changes directly
VideoArgs == [title : Titles, views : {90, 100}, days_up : {18, 20, 100}]

NoConfig == [videos |-> FALSE, key |-> FALSE, d |-> 0]
NoArgs == [key |-> FALSE, d |-> 0]

(* -------------------------- specifications ----------------------------- *)
\* the program, from the start of main
Init ==
    /\ pc = "main"
    /\ data \in [videos : BOOLEAN, key : BOOLEAN, d : 0..MaxArgDays]
    /\ args \in [key : BOOLEAN, d : 0..MaxArgDays]
    /\ api \in (IF data.videos THEN SeqsUpTo(ApiAnswers, MaxIds) ELSE {<<>>})
    /\ obj = <<>>
    /\ videos = <<>>
    /\ prev_order = <<>>
    /\ day = 0
    /\ days_threshold = 0
    /\ out = <<>>
    /\ ret = "running"
    /\ exitCode = -1
    /\ steps = 0
    /\ jumped = 0

Next == main \/ get_video_details \/ call_track_changes \/ Day \/ Return

Spec == Init /\ [][Next]_vars

\* track_changes called on a list of constructed videos with any days_threshold
InitTrack ==
    /\ pc = "track"
    /\ data = NoConfig
    /\ args = NoArgs
    /\ api \in SeqsUpTo(VideoArgs, MaxVideos)
    /\ obj = [i \in 1..Len(api) |-> Video(api[i].title, api[i].views, api[i].days_up)]
    /\ videos = [i \in 1..Len(api) |-> i]
    /\ prev_order = <<>>
    /\ day = 0
    /\ days_threshold \in 0..MaxDays
    /\ out = <<>>
    /\ ret = "running"
    /\ exitCode = -1
    /\ steps = 0
    /\ jumped = 0

NextTrack == Day \/ Return

SpecTrack == InitTrack /\ [][NextTrack]_vars

\* two Videos built from the same arguments, one advanced a day at a time,
\* the other by N days at once
InitItem ==
    /\ pc = "item"
    /\ data = NoConfig
    /\ args = NoArgs
    /\ api \in [1..1 -> VideoArgs]
    /\ obj = [i \in 1..2 |-> Video(api[1].title, api[1].views, api[1].days_up)]
    /\ videos = <<>>
    /\ prev_order = <<>>
    /\ day = 0
    /\ days_threshold = 0
    /\ out = <<>>
    /\ ret = "running"
    /\ exitCode = -1
    /\ steps = 0
    /\ jumped = 0

NextItem == AdvanceByOne \/ AdvanceByN

SpecItem == InitItem /\ [][NextItem]_vars

(* ------------------------ vocabulary of the claims --------------------- *)
TitlesOf(o, vs) == [i \in 1..Len(vs) |-> o[vs[i]].title]
RowTitles(snap) == [i \in 1..Len(snap.rows) |-> snap.rows[i].title]
Perms(n) == {p \in [1..n -> 1..n] : \A i, j \in 1..n : p[i] = p[j] => i = j}
Pos(vs, id) == CHOOSE i \in 1..Len(vs) : vs[i] = id
\* the rows print_videos_summary shows for the order vs at the values in o
RowsAt(o, vs) ==
    [i \in 1..Len(vs) |-> [title |-> o[vs[i]].title, views |-> ToInt(o[vs[i]].views)]]
\* a Day step of track_changes
DayStep == pc = "track" /\ day' = day + 1

(* C1: for non-empty videos and days_threshold >= 1 the first thing reported
   is the 'Starting state (Day 1)' snapshot, no other snapshot carries that
   heading or precedes it, and its rows are the input videos, each exactly
   once, in descending order of their initial view counts. *)
C1_FirstSnapshot ==
    (Len(api) > 0 /\ days_threshold >= 1) =>
        /\ day = 0 => out = <<>>
        /\ day >= 1 =>
            /\ Len(out) >= 1
            /\ out[1].start /\ out[1].day = 1
            /\ \A k \in 2..Len(out) : ~out[k].start /\ out[k].day > 1
            /\ Len(out[1].rows) = Len(api)
            /\ \E p \in Perms(Len(api)) : \A i \in 1..Len(api) :
                  out[1].rows[i] = [title |-> api[p[i]].title, views |-> api[p[i]].views]
            /\ \A i, j \in 1..Len(api) :
                  i < j => out[1].rows[i].views >= out[1].rows[j].views

C1_Witness ==
    /\ pc = "done" /\ Len(api) = 2 /\ days_threshold >= 1
    /\ api[1].views < api[2].views
    /\ Len(out) >= 1 /\ out[1].rows[1].title = api[2].title

(* C2: on a day index d with 0 < d < days_threshold, a snapshot headed
   'Day d+1' with the full current order is printed if and only if some rank
   position holds another title than it held in the sorted order of day d-1;
   at most one snapshot is printed per day; prev_order is overwritten with
   the current order on every day, reported or not. *)
C2_ReportIff ==
    [][DayStep =>
        /\ prev_order' = videos'
        /\ day > 0 =>
            /\ prev_order = videos
            /\ IF \E i \in 1..Len(videos) : obj[videos[i]].title # obj[videos'[i]].title
               THEN out' = Append(out, [start |-> FALSE, day |-> day + 1,
                                        rows |-> RowsAt(obj, videos')])
               ELSE out' = out]_vars

C2_Witness ==
    /\ day >= 5 /\ Len(out) = 2 /\ out[2].day = 4

(* C5: videos with one common avg_views and pairwise distinct initial view
   counts produce exactly one snapshot, the day-1 one, whatever the horizon. *)
C5_NoSpuriousReports ==
    ( /\ \A i, j \in 1..Len(api) : obj[i].avg_views = obj[j].avg_views
      /\ \A i, j \in 1..Len(api) : i # j => api[i].views # api[j].views ) =>
        /\ Len(out) <= 1
        /\ day >= 1 => (Len(out) = 1 /\ out[1].start)

C5_Witness ==
    /\ pc = "done" /\ Len(api) = 2 /\ days_threshold >= 5
    /\ obj[1].avg_views = obj[2].avg_views
    /\ api[1].views # api[2].views
    /\ Len(out) = 1

\* the two videos and the two snapshots of the swap example
ArgA == [title |-> "A", views |-> 100, days_up |-> 100]
ArgB == [title |-> "B", views |-> 90, days_up |-> 18]
C6_Day1 == [start |-> TRUE, day |-> 1,
            rows |-> <<[title |-> "A", views |-> 100], [title |-> "B", views |-> 90]>>]
C6_Day4 == [start |-> FALSE, day |-> 4,
            rows |-> <<[title |-> "B", views |-> 105], [title |-> "A", views |-> 103]>>]

(* C6: A (100 views, 1 a day) and B (90 views, 5 a day): the day-1 snapshot
   ranks A first, the only other snapshot is 'Day 4' (day index 3) and ranks
   B first; nothing is reported on days 2, 3 or after day 4. *)
C6_SwapOnDay4 ==
    (api = <<ArgA, ArgB>> \/ api = <<ArgB, ArgA>>) =>
        out = IF day = 0 THEN <<>>
              ELSE IF day <= 3 THEN <<C6_Day1>>
              ELSE <<C6_Day1, C6_Day4>>

C6_Witness ==
    /\ pc = "done" /\ api = <<ArgB, ArgA>> /\ days_threshold >= 5
    /\ Len(out) = 2

(* C9: each day's sort leaves videos a permutation of the original items, in
   descending order of the view counts the day's comparison and report see,
   videos of equal view count keeping the relative order they had before
   that day's sort; the rows reported that day are in that order. *)
C9_StableDescending ==
    [][DayStep =>
        /\ Len(videos') = Len(api)
        /\ \A id \in 1..Len(api) : \E i \in 1..Len(videos') : videos'[i] = id
        /\ \A i, j \in 1..Len(videos') : i < j =>
              /\ obj[videos'[i]].views >= obj[videos'[j]].views
              /\ obj[videos'[i]].views = obj[videos'[j]].views
                    => Pos(videos, videos'[i]) < Pos(videos, videos'[j])
        /\ out' # out => out'[Len(out')].rows = RowsAt(obj, videos')]_vars

C9_Witness ==
    /\ day >= 1 /\ Len(api) = 2
    /\ api[1].views = api[2].views /\ api[1].title # api[2].title
    /\ out[1].rows[1].title = api[1].title

(* C10: from day index 1 on, the titles of prev_order by rank are the titles
   of the snapshot printed last; a day prints a snapshot exactly when its
   title order differs from that of the snapshot printed last; and any two
   snapshots printed one after the other differ in title at some rank. *)
C10_PrevIsLastReported ==
    /\ [](day > 0 => TitlesOf(obj, prev_order) = RowTitles(out[Len(out)]))
    /\ [](\A k \in 1..(Len(out) - 1) :
            \E i \in 1..Len(out[k].rows) : out[k].rows[i].title # out[k + 1].rows[i].title)
    /\ [][(DayStep /\ day > 0) =>
            (out' # out <=> TitlesOf(obj, videos') # RowTitles(out[Len(out)]))]_vars

C10_Witness ==
    /\ pc = "track" /\ day >= 5 /\ Len(out) = 2 /\ out[2].day = 4
    /\ TitlesOf(obj, prev_order) = RowTitles(out[2])

(* C3: the loop runs as many days as the configuration asks for: the -d flag
   or the d key when one is given, 100 days only when neither is. *)
C3_RunsConfiguredHorizon ==
    (pc = "done" /\ ret = "None") =>
        day = (IF args.d # 0 THEN args.d ELSE IF data.d # 0 THEN data.d ELSE DefaultDays)

(* C4: without the videos key the process exits with status 1, with videos
   but no key from the file or from -k it exits with status 2; in both cases
   no video is fetched and no day is simulated. *)
C4_ExitCodes ==
    pc = "done" =>
        /\ ~data.videos => (exitCode = 1 /\ obj = <<>> /\ day = 0 /\ out = <<>>)
        /\ (data.videos /\ ~data.key /\ ~args.key) =>
              (exitCode = 2 /\ obj = <<>> /\ day = 0 /\ out = <<>>)

(* C8: a video whose upload date is not before today (days_up <= 0) is never
   constructed with a non-zero avg_views: construction fails or the growth
   is zero. *)
C8_NoGrowthWithoutAge ==
    \A i \in 1..Len(obj) : api[i].days_up <= 0 => obj[i].avg_views = 0

(* C7 as stated: N calls of fast_forward(1) leave the same views as one call
   of fast_forward(N). *)
C7_StepsEqualJump ==
    (steps >= 1 /\ jumped = steps) => obj[1].views = obj[2].views

Ulp(x) == MaxOf(1, Pow2(BitLen(Abs(x)) - MantBits))

(* C7 amended: avg_views is the quotient computed at construction and no
   fast_forward changes it; N calls of fast_forward(1) and one call of
   fast_forward(N) both leave views = initial views + avg_views * N exactly
   when avg_views is a whole number and the sums are exactly representable;
   for any video of positive age the two differ by at most N + 1 units in
   the last place of the larger. *)
C7_LinearUpToRounding ==
    /\ \A k \in 1..2 : obj[k].avg_views = TrueDiv(api[1].views, api[1].days_up)
    /\ (steps >= 1 /\ jumped = steps) =>
        /\ ( /\ obj[1].avg_views % Unit = 0
             /\ api[1].views + steps * (obj[1].avg_views \div Unit) < Pow2(MantBits) ) =>
                /\ obj[1].views = api[1].views * Unit + steps * obj[1].avg_views
                /\ obj[2].views = obj[1].views
        /\ Abs(obj[1].views - obj[2].views)
              <= (steps + 1) * Ulp(MaxOf(obj[1].views, obj[2].views))

C7_Witness ==
    /\ steps >= 3 /\ jumped = steps
    /\ obj[1].avg_views % Unit = 0
    /\ obj[1].views = obj[2].views
    /\ obj[1].views > api[1].views * Unit

====
